---- MODULE Spec2Model ----
(***************************************************************************)
(* Model of validate_and_insert_titanic (src/dags/titanic.py): a CSV file  *)
(* is loaded into a data frame, its header and column types are checked,   *)
(* every row is validated, and the surviving rows are appended to a SQLite *)
(* table.  Numbers are held in half units (v = 2 * value) so that values   *)
(* such as 120.5 can be told from 120.                                     *)
(***************************************************************************)
EXTENDS Integers, Sequences, FiniteSets, TLC

VARIABLES
    header,        \* the CSV file: its header line, a sequence of column names
    rawRows,       \* the CSV file: its data lines, each a sequence of raw cells
    table,         \* the destination table: the committed rows
    pending,       \* rows written on the open connection and not yet committed
    pc,            \* position of the run inside validate_and_insert_titanic
    stats,         \* the stats dictionary
    columns,       \* df.columns
    dtypes,        \* the dtype of every column of df
    idx,           \* number of rows the loop has been through
    valid_rows,    \* the list valid_rows
    tableAtStart,  \* history: the table when the current run started
    table0,        \* history: the table before the first run
    runs,          \* history: number of runs started
    okRuns         \* history: number of runs that returned stats

vars == <<header, rawRows, table, pending, pc, stats, columns, dtypes, idx,
          valid_rows, tableAtStart, table0, runs, okRuns>>

-----------------------------------------------------------------------------
(* Bounds *)

MaxRows == 2
MaxRuns == 2

-----------------------------------------------------------------------------
(* Numbers in half units *)

Num(n) == 2 * n

AGE_LO == 0
AGE_HI == 120
HEADER_OFFSET == 2

-----------------------------------------------------------------------------
(* Column names are sequences of characters *)

RECURSIVE LStrip(_)
LStrip(s) == IF s = <<>> THEN s
             ELSE IF Head(s) = " " THEN LStrip(Tail(s)) ELSE s

RECURSIVE RStrip(_)
RStrip(s) == IF s = <<>> THEN s
             ELSE IF s[Len(s)] = " " THEN RStrip(SubSeq(s, 1, Len(s) - 1)) ELSE s

Strip(s) == RStrip(LStrip(s))

LowerChar(c) ==
    CASE c = "A" -> "a" [] c = "G" -> "g" [] c = "E" -> "e" [] c = "S" -> "s"
      [] c = "U" -> "u" [] c = "R" -> "r" [] c = "V" -> "v" [] c = "I" -> "i"
      [] c = "D" -> "d" [] c = "N" -> "n" [] c = "M" -> "m"
      [] OTHER -> c

Lower(s) == [i \in 1..Len(s) |-> LowerChar(s[i])]

age == <<"a", "g", "e">>
survived == <<"s", "u", "r", "v", "i", "v", "e", "d">>
required_cols == <<age, survived>>

\* column_map = {col.lower(): col for col in df.columns}: a later column
\* with the same lowercase name replaces an earlier one
InColumnMap(cols, key) == \E j \in 1..Len(cols) : Lower(cols[j]) = key

ColumnMap(cols, key) ==
    LET js == {j \in 1..Len(cols) : Lower(cols[j]) = key}
        last == CHOOSE j \in js : \A k \in js : k <= j
    IN cols[last]

\* the check looks for the first required column only
missing_colsFirstOnly(cols) ==
    {i \in {1} : ~InColumnMap(cols, required_cols[i])}

missing_cols(cols) ==
    {i \in 1..Len(required_cols) : ~InColumnMap(cols, required_cols[i])}

\* df[name]: the position of the column called name
ColumnAt(cols, name) == CHOOSE j \in 1..Len(cols) : cols[j] = name

-----------------------------------------------------------------------------
(* pd.read_csv: raw cells, column dtypes and the values held in the frame *)

RawInt(n)   == [k |-> "int",   v |-> Num(n)]
RawFloat(h) == [k |-> "float", v |-> h]
RawBool(b)  == [k |-> "bool",  v |-> IF b THEN Num(1) ELSE Num(0)]
RawNA       == [k |-> "na",    v |-> 0]
RawText     == [k |-> "text",  v |-> 0]

Kinds(cells) == {cells[i].k : i \in 1..Len(cells)}

\* dtype read_csv gives a column: int64 for integers only, float64 for
\* integers, floats and missing cells, bool for True/False only, object for
\* everything else and for a column without cells
InferDType(cells) ==
    IF Len(cells) = 0 THEN "object"
    ELSE IF Kinds(cells) \subseteq {"int"} THEN "int64"
    ELSE IF Kinds(cells) \subseteq {"int", "float", "na"} THEN "float64"
    ELSE IF Kinds(cells) = {"bool"} THEN "bool"
    ELSE "object"

Column(rows, j) == [i \in 1..Len(rows) |-> rows[i][j]]

DTypes(hdr, rows) == [j \in 1..Len(hdr) |-> InferDType(Column(rows, j))]

\* is_numeric_dtype: integer, floating and boolean dtypes are numeric
is_numeric_dtype(dtype) == dtype \in {"int64", "float64", "bool"}

\* A value of the program: its Python type t, whether it is NaN, and its
\* number in half units
Val(t, v) == [t |-> t, nan |-> FALSE, v |-> v]
NaN(t)    == [t |-> t, nan |-> TRUE, v |-> 0]
None      == [t |-> "NoneType", nan |-> FALSE, v |-> 0]

\* dtype of the Series iterrows builds for a row: the common dtype of the
\* frame's columns
RowDType(dts) ==
    LET all == {dts[j] : j \in 1..Len(dts)}
    IN IF all \subseteq {"int64"} THEN "int64"
       ELSE IF all \subseteq {"int64", "float64"} THEN "float64"
       ELSE IF all \subseteq {"bool"} THEN "bool"
       ELSE "object"

\* row[col] inside the loop: numpy scalars when the row Series has a numpy
\* dtype, Python objects when it has dtype object
RowValue(cell, dtype, rowdtype) ==
    IF rowdtype = "int64" THEN Val("numpy.int64", cell.v)
    ELSE IF rowdtype = "float64" THEN
        IF cell.k = "na" THEN NaN("numpy.float64") ELSE Val("numpy.float64", cell.v)
    ELSE IF rowdtype = "bool" THEN Val("numpy.bool_", cell.v)
    ELSE IF dtype = "int64" THEN Val("int", cell.v)
    ELSE IF dtype = "float64" THEN
        IF cell.k = "na" THEN NaN("float") ELSE Val("float", cell.v)
    ELSE IF dtype = "bool" THEN Val("bool", cell.v)
    ELSE IF cell.k = "na" THEN NaN("float")
    ELSE Val("str", cell.v)

\* the row Series iterrows yields for the i-th record
Row(rows, dts, i) ==
    [j \in 1..Len(dts) |-> RowValue(rows[i][j], dts[j], RowDType(dts))]

-----------------------------------------------------------------------------
(* The checks of the row loop *)

\* NaN is not taken for a missing value
isnaNoneOnly(x) == x.t = "NoneType"

isna(x) == x.nan \/ x.t = "NoneType"

\* isinstance(x, (int, float)): bool derives from int and numpy.float64 from
\* float; numpy.int64 and numpy.bool_ derive from neither
IsIntOrFloat(x) == x.t \in {"int", "float", "bool", "numpy.float64"}

IsNumber(x) == x.t \in {"int", "float", "bool", "numpy.int64", "numpy.float64",
                        "numpy.bool_"}

\* equality that also compares the types
PyEqSameType(x, y) == x.t = y.t /\ ~x.nan /\ ~y.nan /\ x.v = y.v

\* Python's ==, as the list membership test uses it
PyEq(x, y) == IsNumber(x) /\ IsNumber(y) /\ ~x.nan /\ ~y.nan /\ x.v = y.v

SURVIVED_VALUES ==
    <<Val("int", Num(0)), Val("int", Num(1)), Val("float", Num(0)), Val("float", Num(1))>>

PyIn(x, list) == \E i \in 1..Len(list) : PyEq(x, list[i])

SurvivedInvalid(x) == ~isna(x) /\ ~PyIn(x, SURVIVED_VALUES)

AgeInvalid(x) ==
    ~isna(x) /\ (~IsIntOrFloat(x) \/ x.v < Num(AGE_LO) \/ x.v > Num(AGE_HI))

Warning(row_num, field, x) == [row |-> row_num, field |-> field, value |-> x]

\* cleaned_row[col] = value: None is stored as NaN by a Series with a
\* floating dtype and as None by a Series with dtype object
Cleaned(x, rowdtype) ==
    IF ~isna(x) THEN x
    ELSE IF rowdtype = "float64" THEN NaN("numpy.float64") ELSE None

\* the value to_sql writes for a cell: NULL for None and NaN
NULL == [null |-> TRUE, v |-> 0]
SqlValue(x) == IF isna(x) THEN NULL ELSE [null |-> FALSE, v |-> x.v]
SqlRow(r) == [j \in 1..Len(r) |-> SqlValue(r[j])]

-----------------------------------------------------------------------------
(* The inputs: CSV files and destination tables *)

\* a header and, for every column, the cells the file holds in it:
\* "A" ages, "S" survival flags, "B" True, "T" text
Age_Survived == << <<"A", "g", "e">>, <<"S", "u", "r", "v", "i", "v", "e", "d">> >>

FullLayouts ==
    { [header |-> Age_Survived, gens |-> <<"A", "S">>],
      [header |-> << <<"N", "a", "m", "e">>, <<" ", "a", "g", "e", " ">>,
                     <<"S", "U", "R", "V", "I", "V", "E", "D">> >>,
       gens   |-> <<"T", "A", "S">>] }

Layouts ==
    FullLayouts \cup
    { [header |-> << <<"N", "a", "m", "e">>, <<"S", "u", "r", "v", "i", "v", "e", "d">> >>,
       gens   |-> <<"T", "S">>],
      [header |-> << <<"A", " ", "g", "e">>, <<"s", "u", "r", "v", "i", "v", "e", "d", " ">> >>,
       gens   |-> <<"A", "S">>],
      [header |-> << <<"A", "G", "E">>, <<"N", "a", "m", "e">> >>,
       gens   |-> <<"A", "T">>],
      [header |-> Age_Survived, gens |-> <<"A", "B">>],
      [header |-> Age_Survived, gens |-> <<"T", "S">>],
      [header |-> Age_Survived, gens |-> <<"A", "T">>],
      [header |-> Age_Survived, gens |-> <<"B", "B">>] }

AgeCells == {RawInt(0 - 1), RawInt(0), RawInt(120), RawInt(121), RawFloat(241), RawNA}

SurvivedCells == {RawInt(0), RawInt(1), RawInt(2), RawNA}

RerunAgeCells == {RawInt(0), RawInt(121), RawNA}

RerunSurvivedCells == {RawInt(1), RawInt(2)}

CsvRows(gens, ages, survs) ==
    [i \in 1..Len(ages) |->
        [j \in 1..Len(gens) |->
            CASE gens[j] = "A" -> ages[i]
              [] gens[j] = "S" -> survs[i]
              [] gens[j] = "B" -> RawBool(TRUE)
              [] OTHER -> RawText]]

OldRow == <<[null |-> FALSE, v |-> Num(40)], [null |-> FALSE, v |-> Num(1)]>>

\* the table before the first run: absent or empty, or holding a row
Tables == {<<>>, <<OldRow>>}

-----------------------------------------------------------------------------
(* The state machine *)

NewStats == [total_rows |-> 0, inserted_rows |-> 0, skipped_rows |-> 0,
             warnings |-> <<>>]

InitWith(layouts, ageCells, survivedCells, tables) ==
    /\ \E l \in layouts, n \in 0..MaxRows :
         \E ages \in [1..n -> ageCells], survs \in [1..n -> survivedCells] :
            /\ header = l.header
            /\ rawRows = CsvRows(l.gens, ages, survs)
    /\ table \in tables
    /\ pending = <<>>
    /\ pc = "load"
    /\ stats = NewStats
    /\ columns = <<>>
    /\ dtypes = <<>>
    /\ idx = 0
    /\ valid_rows = <<>>
    /\ tableAtStart = table
    /\ table0 = table
    /\ runs = 1
    /\ okRuns = 0

Init == InitWith(Layouts, AgeCells, SurvivedCells, {<<OldRow>>})

InitRerun == InitWith(Layouts, RerunAgeCells, RerunSurvivedCells, Tables)

\* sys.exit(1)
Exit == pc' = "exited"

\* lines 31-34: the file is read into df
Load ==
    /\ pc = "load"
    /\ columns' = header
    /\ dtypes' = DTypes(header, rawRows)
    /\ stats' = [stats EXCEPT !.total_rows = Len(rawRows)]
    /\ pc' = "schema"
    /\ UNCHANGED <<header, rawRows, table, pending, idx, valid_rows,
                   tableAtStart, table0, runs, okRuns>>

\* lines 35-37: read_csv raised
LoadError ==
    /\ pc = "load"
    /\ Exit
    /\ UNCHANGED <<header, rawRows, table, pending, stats, columns, dtypes, idx,
                   valid_rows, tableAtStart, table0, runs, okRuns>>

StripAll(cols) == [j \in 1..Len(cols) |-> Strip(cols[j])]

\* lines 41-51: a required column is missing
SchemaError ==
    /\ pc = "schema"
    /\ columns' = StripAll(columns)
    /\ missing_cols(columns') # {}
    /\ Exit
    /\ UNCHANGED <<header, rawRows, table, pending, stats, dtypes, idx,
                   valid_rows, tableAtStart, table0, runs, okRuns>>

\* lines 41-57: both required columns are there
SchemaOk ==
    /\ pc = "schema"
    /\ columns' = StripAll(columns)
    /\ missing_cols(columns') = {}
    /\ pc' = "types"
    /\ UNCHANGED <<header, rawRows, table, pending, stats, dtypes, idx,
                   valid_rows, tableAtStart, table0, runs, okRuns>>

age_col == ColumnMap(columns, age)
survived_col == ColumnMap(columns, survived)

\* lines 62-64
SurvivedTypeError ==
    /\ pc = "types"
    /\ ~is_numeric_dtype(dtypes[ColumnAt(columns, survived_col)])
    /\ Exit
    /\ UNCHANGED <<header, rawRows, table, pending, stats, columns, dtypes, idx,
                   valid_rows, tableAtStart, table0, runs, okRuns>>

\* lines 67-69
AgeTypeError ==
    /\ pc = "types"
    /\ is_numeric_dtype(dtypes[ColumnAt(columns, survived_col)])
    /\ ~is_numeric_dtype(dtypes[ColumnAt(columns, age_col)])
    /\ Exit
    /\ UNCHANGED <<header, rawRows, table, pending, stats, columns, dtypes, idx,
                   valid_rows, tableAtStart, table0, runs, okRuns>>

\* lines 62-74
TypesOk ==
    /\ pc = "types"
    /\ is_numeric_dtype(dtypes[ColumnAt(columns, survived_col)])
    /\ is_numeric_dtype(dtypes[ColumnAt(columns, age_col)])
    /\ valid_rows' = <<>>
    /\ pc' = "rows"
    /\ UNCHANGED <<header, rawRows, table, pending, stats, columns, dtypes, idx,
                   tableAtStart, table0, runs, okRuns>>

\* lines 76-109: one iteration of the row loop
ProcessRow ==
    /\ pc = "rows"
    /\ idx < Len(rawRows)
    /\ LET row == Row(rawRows, dtypes, idx + 1)
           row_num == idx + HEADER_OFFSET
           sc == ColumnAt(columns, survived_col)
           ac == ColumnAt(columns, age_col)
           survived_bad == SurvivedInvalid(row[sc])
           age_bad == AgeInvalid(row[ac])
           w1 == IF survived_bad
                 THEN <<Warning(row_num, "Survived", row[sc])>> ELSE <<>>
           w2 == IF age_bad
                 THEN <<Warning(row_num, "Age", row[ac])>> ELSE <<>>
           skip_row == survived_bad \/ age_bad
           cleaned_row == [row EXCEPT ![sc] = Cleaned(row[sc], RowDType(dtypes)),
                                      ![ac] = Cleaned(row[ac], RowDType(dtypes))]
       IN /\ stats' = [stats EXCEPT
                          !.warnings = stats.warnings \o w1 \o w2,
                          !.skipped_rows = stats.skipped_rows + Len(w1) + Len(w2)]
          /\ valid_rows' = IF skip_row THEN valid_rows
                           ELSE Append(valid_rows, cleaned_row)
    /\ idx' = idx + 1
    /\ UNCHANGED <<header, rawRows, table, pending, pc, columns, dtypes,
                   tableAtStart, table0, runs, okRuns>>

\* lines 115-117: nothing is left to insert
EmptyResultError ==
    /\ pc = "rows"
    /\ idx = Len(rawRows)
    /\ Len(valid_rows) = 0
    /\ Exit
    /\ UNCHANGED <<header, rawRows, table, pending, stats, columns, dtypes, idx,
                   valid_rows, tableAtStart, table0, runs, okRuns>>

\* the loop's end without the test for an empty valid_rows
LoopDoneUnguarded ==
    /\ pc = "rows"
    /\ idx = Len(rawRows)
    /\ pc' = "connect"
    /\ UNCHANGED <<header, rawRows, table, pending, stats, columns, dtypes, idx,
                   valid_rows, tableAtStart, table0, runs, okRuns>>

\* lines 115-120
LoopDone ==
    /\ pc = "rows"
    /\ idx = Len(rawRows)
    /\ Len(valid_rows) # 0
    /\ pc' = "connect"
    /\ UNCHANGED <<header, rawRows, table, pending, stats, columns, dtypes, idx,
                   valid_rows, tableAtStart, table0, runs, okRuns>>

\* lines 124-125
Connect ==
    /\ pc = "connect"
    /\ pc' = "to_sql"
    /\ UNCHANGED <<header, rawRows, table, pending, stats, columns, dtypes, idx,
                   valid_rows, tableAtStart, table0, runs, okRuns>>

\* lines 124-125 raise
ConnectError ==
    /\ pc = "connect"
    /\ pc' = "insert_error"
    /\ UNCHANGED <<header, rawRows, table, pending, stats, columns, dtypes, idx,
                   valid_rows, tableAtStart, table0, runs, okRuns>>

SqlRows(rows) == [i \in 1..Len(rows) |-> SqlRow(rows[i])]

\* line 127: every row of valid_df is written on the connection
ToSql ==
    /\ pc = "to_sql"
    /\ pending' = SqlRows(valid_rows)
    /\ pc' = "commit"
    /\ UNCHANGED <<header, rawRows, table, stats, columns, dtypes, idx,
                   valid_rows, tableAtStart, table0, runs, okRuns>>

\* line 127 raises after some of the rows were written
ToSqlError ==
    /\ pc = "to_sql"
    /\ \E k \in 0..(Len(valid_rows) - 1) :
          pending' = SubSeq(SqlRows(valid_rows), 1, k)
    /\ pc' = "insert_error"
    /\ UNCHANGED <<header, rawRows, table, stats, columns, dtypes, idx,
                   valid_rows, tableAtStart, table0, runs, okRuns>>

\* the table replaced by the batch instead of appended to
CommittedReplace(tbl, pend) == pend

\* rows written before a failure stay in the table
RolledBackPersisted(tbl, pend) == tbl \o pend

\* what the database holds once the connection's transaction is committed
Committed(tbl, pend) == tbl \o pend

\* what the database holds once the connection is dropped uncommitted
RolledBack(tbl, pend) == tbl

\* lines 128-130 and 136
Commit ==
    /\ pc = "commit"
    /\ table' = Committed(table, pending)
    /\ pending' = <<>>
    /\ stats' = [stats EXCEPT !.inserted_rows = Len(valid_rows)]
    /\ pc' = "returned"
    /\ okRuns' = okRuns + 1
    /\ UNCHANGED <<header, rawRows, columns, dtypes, idx, valid_rows,
                   tableAtStart, table0, runs>>

\* line 128 raises
CommitError ==
    /\ pc = "commit"
    /\ pc' = "insert_error"
    /\ UNCHANGED <<header, rawRows, table, pending, stats, columns, dtypes, idx,
                   valid_rows, tableAtStart, table0, runs, okRuns>>

\* lines 132-134: the process exits with the transaction uncommitted
InsertError ==
    /\ pc = "insert_error"
    /\ table' = RolledBack(table, pending)
    /\ pending' = <<>>
    /\ Exit
    /\ UNCHANGED <<header, rawRows, stats, columns, dtypes, idx, valid_rows,
                   tableAtStart, table0, runs, okRuns>>

\* the task is triggered again on the same file and the same table
Rerun ==
    /\ pc \in {"returned", "exited"}
    /\ runs < MaxRuns
    /\ runs' = runs + 1
    /\ pc' = "load"
    /\ stats' = NewStats
    /\ columns' = <<>>
    /\ dtypes' = <<>>
    /\ idx' = 0
    /\ valid_rows' = <<>>
    /\ tableAtStart' = table
    /\ UNCHANGED <<header, rawRows, table, pending, table0, okRuns>>

Run ==
    \/ Load
    \/ LoadError
    \/ SchemaError
    \/ SchemaOk
    \/ SurvivedTypeError
    \/ AgeTypeError
    \/ TypesOk
    \/ ProcessRow
    \/ EmptyResultError
    \/ LoopDone
    \/ Connect
    \/ ConnectError
    \/ ToSql
    \/ ToSqlError
    \/ Commit
    \/ CommitError
    \/ InsertError

\* one invocation of validate_and_insert_titanic
Next == Run

Spec == Init /\ [][Next]_vars

\* the task triggered up to MaxRuns times on the same file and table
NextRerun == Run \/ Rerun

SpecRerun == InitRerun /\ [][NextRerun]_vars
-----------------------------------------------------------------------------
(* Vocabulary of the properties *)

InLoop == pc \in {"rows", "connect", "to_sql", "commit", "insert_error", "returned"}
InInsert == pc \in {"connect", "to_sql", "commit", "insert_error", "returned"}

\* the raw cells of the i-th record in the columns the program bound
AgeCell(i) == rawRows[i][ColumnAt(columns, age_col)]
SurvivedCell(i) == rawRows[i][ColumnAt(columns, survived_col)]

IsNumeric(cell) == cell.k \in {"int", "float", "bool"}
IsMissing(cell) == cell.k = "na"

\* the rules on the numbers themselves
AgeInRange(cell) == Num(AGE_LO) <= cell.v /\ cell.v <= Num(AGE_HI)
SurvivedInSet(cell) == cell.v \in {Num(0), Num(1)}

\* the i-th record is row i + 1 of the file
Diagnostics(i) == {k \in 1..Len(stats.warnings) : stats.warnings[k].row = i + 1}
DiagnosedFor(i, field) ==
    \E k \in Diagnostics(i) : stats.warnings[k].field = field
Rejected(i) == Diagnostics(i) # {}

\* position of the i-th record among the accepted ones
AcceptedIndex(i) == Cardinality({k \in 1..i : ~Rejected(k)})

IsNull(x) == x.nan \/ x.t = "NoneType"

IsPrefix(s, t) == Len(s) <= Len(t) /\ SubSeq(t, 1, Len(s)) = s

RECURSIVE Repeat(_, _)
Repeat(s, n) == IF n = 0 THEN <<>> ELSE s \o Repeat(s, n - 1)

\* a required column is absent from the header, names compared after
\* trimming and case folding
RequiredAbsent ==
    \E r \in {age, survived} :
        \A j \in 1..Len(header) : Lower(Strip(header[j])) # r

\* a required column that is present has a cell that is no number
RequiredNotNumeric ==
    /\ ~RequiredAbsent
    /\ \E r \in {age, survived} :
         \E j \in 1..Len(header) :
            /\ Lower(Strip(header[j])) = r
            /\ \/ rawRows = <<>>
               \/ \E i \in 1..Len(rawRows) : rawRows[i][j].k = "text"

-----------------------------------------------------------------------------
(* Properties *)

\* C1: a run that returns has total_rows = inserted_rows + skipped_rows,
\* total_rows being the number of records of the file
C1_TotalIsInsertedPlusSkipped ==
    pc = "returned" =>
        /\ stats.total_rows = Len(rawRows)
        /\ stats.total_rows = stats.inserted_rows + stats.skipped_rows

\* C2: the warnings hold one diagnostic per rejected row, in row order, and
\* never two diagnostics for the same row
C2_OneDiagnosticPerRejectedRow ==
    InLoop =>
        /\ \A k \in 1..(Len(stats.warnings) - 1) :
              stats.warnings[k].row < stats.warnings[k + 1].row
        /\ Len(stats.warnings) = idx - Len(valid_rows)

C4_FatalBeforeRows ==
    (RequiredAbsent \/ RequiredNotNumeric) =>
        /\ ~InLoop
        /\ RequiredAbsent => pc # "types"
        /\ idx = 0
        /\ stats.warnings = <<>>
        /\ stats.skipped_rows = 0
        /\ valid_rows = <<>>
        /\ pending = <<>>
        /\ table = tableAtStart

C4_HaltedOnSchema ==
    /\ pc = "exited"
    /\ RequiredAbsent
    /\ columns # <<>>
    /\ Len(rawRows) = MaxRows

\* C5: the insert step is reached only with an accepted row, and a run that
\* returns has inserted_rows >= 1
C5_NoInsertWithoutRows ==
    /\ InInsert => Len(valid_rows) >= 1
    /\ pc = "returned" => stats.inserted_rows >= 1

C5_AllRowsRejected ==
    /\ pc = "exited"
    /\ idx = Len(rawRows)
    /\ idx >= 1
    /\ valid_rows = <<>>
    /\ Len(stats.warnings) >= idx

\* C6: a record with a number for Age and a valid or missing Survived is
\* accepted exactly when 0 <= Age <= 120
C6_AgeAcceptedIffInRange ==
    InLoop =>
        \A i \in 1..idx :
            ( /\ AgeCell(i).k \in {"int", "float"}
              /\ \/ IsMissing(SurvivedCell(i))
                 \/ IsNumeric(SurvivedCell(i)) /\ SurvivedInSet(SurvivedCell(i)) )
            => (~Rejected(i) <=> AgeInRange(AgeCell(i)))

\* C7: a record is diagnosed for Survived exactly when its Survived is a
\* number other than 0 and 1, whatever type holds the number, and a record
\* so diagnosed is not among the accepted rows
C7_SurvivedDecidedByNumber ==
    InLoop =>
        /\ \A i \in 1..idx :
              IsNumeric(SurvivedCell(i)) =>
                  (DiagnosedFor(i, "Survived") <=> ~SurvivedInSet(SurvivedCell(i)))
        /\ Len(valid_rows) = Cardinality({i \in 1..idx : ~Rejected(i)})

C7_FloatTwoRejected ==
    /\ InLoop
    /\ \E i \in 1..idx :
          /\ SurvivedCell(i) = RawInt(2)
          /\ Row(rawRows, dtypes, i)[ColumnAt(columns, survived_col)].t = "numpy.float64"
          /\ DiagnosedFor(i, "Survived")
    /\ \E i \in 1..idx :
          /\ SurvivedCell(i) = RawInt(1)
          /\ Row(rawRows, dtypes, i)[ColumnAt(columns, survived_col)].t = "numpy.float64"
          /\ ~Rejected(i)

\* C8: no diagnostic names a missing value; a record with a missing Age or
\* Survived is rejected exactly when its other field is a number outside its
\* rule; and its cleaned row holds null for each missing field and the input
\* number for the other
C8_MissingNeverRejects ==
    InLoop =>
        /\ \A k \in 1..Len(stats.warnings) : ~IsNull(stats.warnings[k].value)
        /\ \A i \in 1..idx :
              LET a == AgeCell(i)
                  s == SurvivedCell(i)
                  ac == ColumnAt(columns, age_col)
                  sc == ColumnAt(columns, survived_col)
              IN (IsMissing(a) \/ IsMissing(s)) =>
                    /\ IsMissing(a) => ~DiagnosedFor(i, "Age")
                    /\ IsMissing(s) => ~DiagnosedFor(i, "Survived")
                    /\ Rejected(i) <=>
                          \/ ~IsMissing(a) /\ ~AgeInRange(a)
                          \/ ~IsMissing(s) /\ ~SurvivedInSet(s)
                    /\ ~Rejected(i) =>
                          LET c == valid_rows[AcceptedIndex(i)]
                          IN /\ IsNull(c[ac]) <=> IsMissing(a)
                             /\ IsNull(c[sc]) <=> IsMissing(s)
                             /\ ~IsMissing(a) => c[ac].v = a.v
                             /\ ~IsMissing(s) => c[sc].v = s.v

C8_BothMissingAccepted ==
    /\ pc = "returned"
    /\ \E i \in 1..idx :
          /\ IsMissing(AgeCell(i))
          /\ IsMissing(SurvivedCell(i))
          /\ ~Rejected(i)
          /\ table[Len(tableAtStart) + AcceptedIndex(i)][ColumnAt(columns, age_col)] = NULL
    /\ \E i \in 1..idx :
          /\ IsMissing(AgeCell(i))
          /\ ~IsMissing(SurvivedCell(i))
          /\ ~Rejected(i)

\* C9: runs on the same file and table append the accepted rows once per
\* run that returns, with no deduplication, after the rows the table held
\* before, which no run drops or alters
C9_RerunAppendsAgain ==
    /\ IsPrefix(table0, table)
    /\ IsPrefix(tableAtStart, table)
    /\ pc = "returned" =>
          /\ table = table0 \o Repeat(SqlRows(valid_rows), okRuns)
          /\ Len(table) = Len(table0) + okRuns * stats.inserted_rows

C9_TwoRunsReturned ==
    /\ pc = "returned"
    /\ runs = 2
    /\ okRuns = 2
    /\ table0 # <<>>
    /\ Len(table) = Len(table0) + 2 * stats.inserted_rows

\* C10: no file with a required column of True/False values gets to the row
\* loop
C10_NoBooleanColumnInLoop ==
    InLoop =>
        \A j \in {ColumnAt(columns, age_col), ColumnAt(columns, survived_col)} :
            \E i \in 1..Len(rawRows) : rawRows[i][j].k # "bool"


====
